---- MODULE Spec2Model ----
(***************************************************************************)
(* huff_codegen: the code generation manager of the Huff compiler.         *)
(*                                                                         *)
(* Two components are modelled.                                            *)
(*   - The macro expander: Codegen::construct and the recursion of         *)
(*     Codegen::recurse_bytecode, as an explicit call stack (one frame per *)
(*     activation of recurse_bytecode, one step per IR entry).             *)
(*   - The artifact methods of a Codegen value: churn, abigen, export.     *)
(*                                                                         *)
(* A String is held run-length encoded: a sequence of runs [c, n], n >= 1  *)
(* copies of the character c, adjacent runs of different characters.  Each *)
(* String has one such form, so equality of forms is equality of Strings,  *)
(* and a bytecode of 65536 bytes is as small a value as one of 2 bytes.    *)
(* The operators on Strings bind their argument as a value v, so that it   *)
(* is evaluated once however often the operator uses it.                   *)
(***************************************************************************)
EXTENDS Integers, Sequences, FiniteSets, TLC

VARIABLES
    pc,        \* position of the expansion: idle, running, returning, done
    contract,  \* the `ast` argument of construct: None or a Contract
    stack,     \* the activations of recurse_bytecode, outermost first
    scope,     \* the `scope` vector threaded through recurse_bytecode
    retval,    \* the value the last returned recurse_bytecode handed back
    result,    \* the value construct returned
    ev,        \* history: the last thing the expander did
    fail,      \* history: where the first failure of the expansion happened
    cg,        \* the Codegen value: ast, artifact, main_bytecode, constructor_bytecode
    files,     \* the file system export writes to: path -> content
    ret,       \* the value the last Codegen method returned (or a panic)
    hist       \* history: the last churn and the last abigen of this Codegen

vars == <<pc, contract, stack, scope, retval, result, ev, fail, cg, files, ret, hist>>

expanderVars == <<pc, contract, stack, scope, retval, result, ev, fail>>

artifactVars == <<cg, files, ret, hist>>

None == [tag |-> "None"]

Some(v) == [tag |-> "Some", v |-> v]

(***************************************************************************)
(* Bounds of the model.                                                    *)
(***************************************************************************)
\* Longest CONSTRUCTOR body enumerated.
MaxBody == 3

\* Deepest nesting of recurse_bytecode activations followed.
MaxDepth == 4

(***************************************************************************)
(* Strings.                                                                *)
(***************************************************************************)
\* The String of one character.
Char(ch) == <<[c |-> ch, n |-> 1]>>

\* The String of n copies of a character.
Rep(ch, n) == IF n <= 0 THEN <<>> ELSE <<[c |-> ch, n |-> n]>>

\* Concatenation: format!("{}{}", a, b), push_str, join("").
SCat(a, b) ==
    LET Merge(p) ==
            LET x == p[1]
                y == p[2]
            IN  IF x = <<>> THEN y
                ELSE IF y = <<>> THEN x
                ELSE IF x[Len(x)].c = y[1].c
                     THEN SubSeq(x, 1, Len(x) - 1)
                          \o <<[c |-> y[1].c, n |-> x[Len(x)].n + y[1].n]>>
                          \o Tail(y)
                     ELSE x \o y
    IN  CHOOSE r \in { Merge(v) : v \in {<<a, b>>} } : TRUE

RECURSIVE Str(_)
\* The String a sequence of characters spells.
Str(chars) ==
    IF chars = <<>> THEN <<>> ELSE SCat(Char(Head(chars)), Str(Tail(chars)))

RECURSIVE SLen(_)
\* String::len(): the number of characters (all are ASCII).
SLen(s) ==
    LET Sum(runs) ==
            IF runs = <<>> THEN 0
            ELSE IF Len(runs) = 1 THEN runs[1].n
            ELSE SLen(SubSeq(runs, 1, Len(runs) \div 2))
                 + SLen(SubSeq(runs, Len(runs) \div 2 + 1, Len(runs)))
    IN  CHOOSE r \in { Sum(v) : v \in {s} } : TRUE

(***************************************************************************)
(* Hex formatting: format!("{:0Nx}") and hex::encode.                      *)
(***************************************************************************)
HexDigits == <<"0", "1", "2", "3", "4", "5", "6", "7",
               "8", "9", "a", "b", "c", "d", "e", "f">>

RECURSIVE ToHex(_)
\* The digits of {:x}: no leading zero, at least one digit.
ToHex(n) ==
    IF n < 16 THEN Char(HexDigits[n + 1])
    ELSE SCat(ToHex(n \div 16), Char(HexDigits[(n % 16) + 1]))

\* format!("{:0<width>x}", n): padded with zeros up to a MINIMUM width.
FormatHex(n, width) ==
    LET Pad(h) ==
            IF SLen(h) >= width THEN h
            ELSE SCat(Rep("0", width - SLen(h)), h)
    IN  CHOOSE r \in { Pad(v) : v \in {ToHex(n)} } : TRUE

RECURSIVE HexEncode(_)
\* hex::encode: two lower-case hex characters per byte, in byte order (the
\* encoding of the first half of the bytes, then that of the second half).
HexEncode(bytes) ==
    LET Encode(bs) ==
            IF bs = <<>> THEN <<>>
            ELSE IF Len(bs) = 1 THEN FormatHex(bs[1], 2)
            ELSE SCat(HexEncode(SubSeq(bs, 1, Len(bs) \div 2)),
                      HexEncode(SubSeq(bs, Len(bs) \div 2 + 1, Len(bs))))
    IN  CHOOSE r \in { Encode(v) : v \in {bytes} } : TRUE

(***************************************************************************)
(* Literals.  type Literal = [u8; 32]: a literal of fewer than 32 bytes is *)
(* held as a 32-byte big-endian word, zero-padded on the left.             *)
(***************************************************************************)
LiteralWidth == 32

Literal32(lit) ==
    [i \in 1..(LiteralWidth - Len(lit)) |-> 0] \o lit

(***************************************************************************)
(* Results and errors.                                                     *)
(***************************************************************************)
Ok(v) == [tag |-> "Ok", value |-> v]

Err(k) == [tag |-> "Err", kind |-> k]

(***************************************************************************)
(* The AST: statements, macro definitions, constant definitions.           *)
(***************************************************************************)
Opcode(b) == [kind |-> "Opcode", byte |-> b]

ConstantRef(n) == [kind |-> "Constant", name |-> n]

MacroInvocation(n) == [kind |-> "MacroInvocation", macro_name |-> n]

ArgCallStmt(n) == [kind |-> "ArgCall", name |-> n]

Label(n) == [kind |-> "Label", name |-> n]

Unrecognized == [kind |-> "Unrecognized"]

MacroDefinition(n, stmts) == [name |-> n, statements |-> stmts]

LiteralVal(l) == [kind |-> "Literal", l |-> l]

FreeStoragePointer == [kind |-> "FreeStoragePointer"]

ConstantDefinition(n, v) == [name |-> n, value |-> v]

(***************************************************************************)
(* Lookups.                                                                *)
(***************************************************************************)
\* Mutant: a visited-set guard, a macro under expansion is not found again.
find_macro_unless_active(c, name) ==
    LET hits == SelectSeq(c.macros, LAMBDA m : m.name = name)
    IN  IF hits = <<>> \/ \E i \in 1..Len(stack) : stack[i].macro_def.name = name
        THEN None
        ELSE Head(hits)

\* Contract::find_macro_by_name: the first macro of that name, or None.
find_macro_by_name(c, name) ==
    LET hits == SelectSeq(c.macros, LAMBDA m : m.name = name)
    IN  IF hits = <<>> THEN None ELSE Head(hits)

\* contract.constants.iter().filter(name).cloned().collect().get(0)
FindConstant(c, name) ==
    LET hits == SelectSeq(c.constants, LAMBDA d : d.name = name)
    IN  IF hits = <<>> THEN None ELSE Head(hits)

(***************************************************************************)
(* IR lowering: MacroDefinition::to_irbytecode.                            *)
(***************************************************************************)
IRByteOf(s) ==
    CASE s.kind = "Opcode"   -> [kind |-> "Byte", b |-> s.byte]
      [] s.kind = "Constant" -> [kind |-> "Constant", name |-> s.name]
      [] s.kind = "ArgCall"  -> [kind |-> "ArgCall", name |-> s.name]
      [] OTHER               -> [kind |-> "Statement", s |-> s]

to_irbytecode(macro_def) ==
    IF \E i \in 1..Len(macro_def.statements) :
           macro_def.statements[i].kind = "Unrecognized"
    THEN Err("InvalidMacroStatement")
    ELSE Ok([i \in 1..Len(macro_def.statements) |->
                IRByteOf(macro_def.statements[i])])

(***************************************************************************)
(* Resolution of a constant into its push bytes.                           *)
(***************************************************************************)
PushBytes(value) ==
    IF value.kind = "Literal"
    THEN LET Push(hex_literal) ==
                 SCat(FormatHex(95 + SLen(hex_literal) \div 2, 2), hex_literal)
         IN  CHOOSE r \in { Push(v) : v \in {HexEncode(value.l)} } : TRUE
    ELSE LET offset == 0
             Push(hex_literal) ==
                 SCat(FormatHex(95 + SLen(hex_literal) \div 2, 2), hex_literal)
         IN  CHOOSE r \in { Push(v) : v \in {HexEncode(<<offset>>)} } : TRUE

\* Mutant: the recursed bytes put in front of the bytes already emitted.
ChainRecursedInFront(final_bytes, recursed_bytecode) ==
    recursed_bytecode \o final_bytes

\* final_bytes.iter().cloned().chain(recursed_bytecode.iter().cloned())
ChainRecursed(final_bytes, recursed_bytecode) ==
    final_bytes \o recursed_bytecode

\* Mutant: the inner error handed on unchanged, as `?` would.
RecursionErrorPassedOn(inner) == inner

\* The error a failed inner recursion is turned into.
RecursionError(inner) == Err("FailedMacroRecursion")

RECURSIVE ConcatBytes(_)
\* recursed_bytecode.iter().map(|byte| byte.0.to_string()).collect::<String>()
ConcatBytes(bytes) ==
    IF bytes = <<>> THEN <<>>
    ELSE SCat(Head(bytes), ConcatBytes(Tail(bytes)))

(***************************************************************************)
(* The contracts the expansion is run on.                                  *)
(***************************************************************************)
\* A 1-byte literal 0xAB, a 2-byte literal and a full 32-byte literal, as written
\* in the source text.
SourceLiterals ==
    { <<171>>, <<1, 2>>, [i \in 1..LiteralWidth |-> IF i = 1 THEN 255 ELSE i] }

TableShort ==
    << ConstantDefinition("K", LiteralVal(Literal32(<<171>>))),
       ConstantDefinition("F", FreeStoragePointer) >>

TableFull ==
    << ConstantDefinition("K", LiteralVal(Literal32([i \in 1..LiteralWidth |->
                                             IF i = 1 THEN 255 ELSE i]))),
       ConstantDefinition("F", FreeStoragePointer) >>

\* The same name defined twice: the lookup takes the first.
TableTwice ==
    << ConstantDefinition("K", LiteralVal(Literal32(<<1, 2>>))),
       ConstantDefinition("K", LiteralVal(Literal32(<<171>>))),
       ConstantDefinition("F", FreeStoragePointer) >>

\* The statements a CONSTRUCTOR body is built from.  "X" and "U" are defined
\* nowhere.
CtorAlphabet ==
    { Opcode(Str(<<"a", "a">>)), ConstantRef("K"), ConstantRef("U"),
      MacroInvocation("A"), MacroInvocation("B"), MacroInvocation("X"),
      ArgCallStmt("x") }

BodiesUpTo(S, n) == UNION { [1..k -> S] : k \in 0..n }

\* The macros A and B and the constants beside the CONSTRUCTOR: leaves, nesting,
\* failures at depth 1 and 2, a lowering failure, self and mutual recursion.
Libraries ==
    { [a |-> <<Opcode(Str(<<"b", "b">>))>>,
       b |-> <<Opcode(Str(<<"c", "c">>)), Opcode(Str(<<"d", "d">>))>>,
       constants |-> TableShort],
      [a |-> <<Opcode(Str(<<"b", "b">>)), MacroInvocation("B"), ConstantRef("K")>>,
       b |-> <<ConstantRef("F"), ArgCallStmt("y")>>,
       constants |-> TableFull],
      [a |-> <<MacroInvocation("B")>>,
       b |-> <<Opcode(Str(<<"c", "c">>)), ConstantRef("U")>>,
       constants |-> TableShort],
      [a |-> <<Opcode(Str(<<"b", "b">>)), MacroInvocation("X")>>,
       b |-> <<Label("l")>>,
       constants |-> TableTwice],
      [a |-> <<Opcode(Str(<<"b", "b">>)), Unrecognized>>,
       b |-> <<>>,
       constants |-> TableFull],
      [a |-> <<Opcode(Str(<<"b", "b">>)), MacroInvocation("A")>>,
       b |-> <<MacroInvocation("B"), MacroInvocation("B")>>,
       constants |-> TableShort],
      [a |-> <<MacroInvocation("B")>>,
       b |-> <<Opcode(Str(<<"c", "c">>)), MacroInvocation("A")>>,
       constants |-> TableShort],
      [a |-> <<MacroInvocation("B"), MacroInvocation("B")>>,
       b |-> <<Opcode(Str(<<"c", "c">>))>>,
       constants |-> TableTwice] }

ContractOf(hasCtor, body, lib) ==
    [macros |->
        (IF hasCtor THEN <<MacroDefinition("CONSTRUCTOR", body)>> ELSE <<>>)
        \o <<MacroDefinition("A", lib.a), MacroDefinition("B", lib.b)>>,
     constants |-> lib.constants]

Contracts ==
    { ContractOf(TRUE, body, lib) :
        body \in BodiesUpTo(CtorAlphabet, MaxBody), lib \in Libraries }
    \cup { ContractOf(FALSE, <<>>, lib) : lib \in Libraries }

(***************************************************************************)
(* The expander as a state machine.                                        *)
(***************************************************************************)
\* A fresh activation of recurse_bytecode: final_bytes empty, the macro lowered.
NewFrame(macro_def) ==
    [macro_def |-> macro_def, irb |-> to_irbytecode(macro_def),
     i |-> 1, final_bytes |-> <<>>]

Top == stack[Len(stack)]

Pop == SubSeq(stack, 1, Len(stack) - 1)

SetTop(f) == [stack EXCEPT ![Len(stack)] = f]

Depth == Len(stack) - 1

AtEntry ==
    /\ pc = "running"
    /\ Top.irb.tag = "Ok"
    /\ Top.i <= Len(Top.irb.value)

Cur == Top.irb.value[Top.i]

\* The running activation returns Err(kind) to its caller.
ReturnErr(kind, cause) ==
    /\ stack' = Pop
    /\ retval' = Err(kind)
    /\ pc' = "returning"
    /\ ev' = [kind |-> "Return", macro |-> Top.macro_def, depth |-> Depth,
              cause |-> cause]
    /\ fail' = IF fail = None THEN [depth |-> Depth, kind |-> kind] ELSE fail

\* The error construct returns when the AST holds no CONSTRUCTOR macro.
NoConstructorError == Err("MissingConstructor")

\* Codegen::construct, up to its call of recurse_bytecode.
Construct(ast) ==
    /\ pc = "idle"
    /\ contract' = ast
    /\ IF ast = None
       THEN /\ result' = Err("MissingAst")
            /\ pc' = "done"
            /\ ev' = [kind |-> "ConstructFailed"]
            /\ UNCHANGED <<stack, scope>>
       ELSE LET c_macro == find_macro_by_name(ast, "CONSTRUCTOR")
            IN  IF c_macro = None
                THEN /\ result' = NoConstructorError
                     /\ pc' = "done"
                     /\ ev' = [kind |-> "ConstructFailed"]
                     /\ UNCHANGED <<stack, scope>>
                ELSE /\ scope' = <<c_macro>>
                     /\ stack' = <<NewFrame(c_macro)>>
                     /\ pc' = "running"
                     /\ ev' = [kind |-> "Enter", macro |-> c_macro, depth |-> 0]
                     /\ UNCHANGED result
    /\ UNCHANGED <<retval, fail>>
    /\ UNCHANGED artifactVars

\* let irb = macro_def.to_irbytecode()?;
LowerFail ==
    /\ pc = "running"
    /\ Top.irb.tag = "Err"
    /\ ReturnErr(Top.irb.kind, [what |-> "Lowering"])
    /\ UNCHANGED <<contract, scope, result>>
    /\ UNCHANGED artifactVars

\* IRByte::Byte(b) => final_bytes.push(b.clone())
StepByte ==
    /\ AtEntry
    /\ Cur.kind = "Byte"
    /\ stack' = SetTop([Top EXCEPT !.final_bytes = Append(@, Cur.b), !.i = @ + 1])
    /\ ev' = [kind |-> "Byte", entry |-> Cur]
    /\ UNCHANGED <<pc, contract, scope, retval, result, fail>>
    /\ UNCHANGED artifactVars

\* The error for a constant the contract does not define.
NoConstantError == "MissingConstantDefinition"

\* IRByte::Constant(name)
StepConstant ==
    /\ AtEntry
    /\ Cur.kind = "Constant"
    /\ LET constant == FindConstant(contract, Cur.name)
       IN  IF constant = None
           THEN /\ ReturnErr(NoConstantError, [what |-> "Entry", entry |-> Cur])
                /\ UNCHANGED <<contract, scope, result>>
           ELSE LET push_bytes == PushBytes(constant.value)
                IN  /\ stack' = SetTop([Top EXCEPT
                                          !.final_bytes = Append(@, push_bytes),
                                          !.i = @ + 1])
                    /\ ev' = [kind |-> "Constant", entry |-> Cur,
                              constant |-> constant, pushed |-> push_bytes]
                    /\ UNCHANGED <<pc, contract, scope, retval, result, fail>>
    /\ UNCHANGED artifactVars

\* Mutant: the missing macro reported as a missing constant.
NoMacroErrorAsConstant == "MissingConstantDefinition"

\* The error for an invoked macro the contract does not define.
NoMacroError == "MissingMacroDefinition"

\* IRByte::Statement(Statement::MacroInvocation(mi)): the lookup, scope.push and
\* the entry into the inner recurse_bytecode.
StepInvoke ==
    /\ AtEntry
    /\ Cur.kind = "Statement"
    /\ Cur.s.kind = "MacroInvocation"
    /\ LET ir_macro == find_macro_by_name(contract, Cur.s.macro_name)
       IN  IF ir_macro = None
           THEN /\ ReturnErr(NoMacroError, [what |-> "Entry", entry |-> Cur])
                /\ UNCHANGED <<contract, scope, result>>
           ELSE /\ Len(stack) < MaxDepth
                /\ scope' = Append(scope, ir_macro)
                /\ stack' = Append(stack, NewFrame(ir_macro))
                /\ ev' = [kind |-> "Enter", macro |-> ir_macro,
                          depth |-> Depth + 1]
                /\ UNCHANGED <<pc, contract, retval, result, fail>>
    /\ UNCHANGED artifactVars

\* IRByte::Statement(s), s no macro invocation
StepInvalid ==
    /\ AtEntry
    /\ Cur.kind = "Statement"
    /\ Cur.s.kind # "MacroInvocation"
    /\ ReturnErr("InvalidMacroStatement", [what |-> "Entry", entry |-> Cur])
    /\ UNCHANGED <<contract, scope, result>>
    /\ UNCHANGED artifactVars

\* IRByte::ArgCall(arg_name): logged only
StepArgCall ==
    /\ AtEntry
    /\ Cur.kind = "ArgCall"
    /\ stack' = SetTop([Top EXCEPT !.i = @ + 1])
    /\ ev' = [kind |-> "ArgCall", entry |-> Cur]
    /\ UNCHANGED <<pc, contract, scope, retval, result, fail>>
    /\ UNCHANGED artifactVars

\* Ok(final_bytes), after the last IR entry
ReturnOk ==
    /\ pc = "running"
    /\ Top.irb.tag = "Ok"
    /\ Top.i > Len(Top.irb.value)
    /\ stack' = Pop
    /\ retval' = Ok(Top.final_bytes)
    /\ pc' = "returning"
    /\ ev' = [kind |-> "Return", macro |-> Top.macro_def, depth |-> Depth,
              cause |-> [what |-> "End"]]
    /\ UNCHANGED <<contract, scope, result, fail>>
    /\ UNCHANGED artifactVars

\* The invoking activation takes the inner result: if let Ok(bytes) = ... else
Resume ==
    /\ pc = "returning"
    /\ stack # <<>>
    /\ IF retval.tag = "Ok"
       THEN /\ stack' = SetTop([Top EXCEPT
                                  !.final_bytes = ChainRecursed(@, retval.value),
                                  !.i = @ + 1])
            /\ retval' = None
            /\ pc' = "running"
            /\ ev' = [kind |-> "Resume", macro |-> Top.macro_def, depth |-> Depth]
       ELSE /\ stack' = Pop
            /\ retval' = RecursionError(retval)
            /\ pc' = "returning"
            /\ ev' = [kind |-> "Return", macro |-> Top.macro_def, depth |-> Depth,
                      cause |-> [what |-> "Inner", entry |-> Cur, inner |-> retval]]
    /\ UNCHANGED <<contract, scope, result, fail>>
    /\ UNCHANGED artifactVars

\* construct takes the outermost result: `?`, then the bytes joined into a String
Finish ==
    /\ pc = "returning"
    /\ stack = <<>>
    /\ result' = IF retval.tag = "Ok" THEN Ok(ConcatBytes(retval.value)) ELSE retval
    /\ pc' = "done"
    /\ ev' = [kind |-> "Finish"]
    /\ UNCHANGED <<contract, stack, scope, retval, fail>>
    /\ UNCHANGED artifactVars

(***************************************************************************)
(* The artifact methods of a Codegen value: churn, abigen, export.         *)
(***************************************************************************)
\* Artifact::default(): empty bytecode, empty runtime, no abi.
ArtifactDefault == [bytecode |-> <<>>, runtime |-> <<>>, abi |-> None]

Unit == [tag |-> "Ok", value |-> <<>>]

Panic(msg) == [tag |-> "Panic", msg |-> msg]

Uint(v) == [kind |-> "Uint", v |-> v]

Bool(b) == [kind |-> "Bool", v |-> IF b THEN 1 ELSE 0]

\* ethers::abi::encode(&[tok]) of a static one-word token: 32 bytes, big-endian.
AbiEncode(tok) == [i \in 1..31 |-> 0] \o <<tok.v>>

RECURSIVE ConstructorArgs(_)
\* args -> encode each -> hex::encode each -> join("")
ConstructorArgs(args) ==
    IF args = <<>> THEN <<>>
    ELSE SCat(HexEncode(AbiEncode(Head(args))), ConstructorArgs(Tail(args)))

\* contract_size = format!("{:04x}", main_bytecode.len() / 2)
ContractSize(main_bytecode) == FormatHex(SLen(main_bytecode) \div 2, 4)

\* Mutant: the bootstrap's own length counted as 12.
ContractCodeOffsetShort(constructor_bytecode) ==
    FormatHex(12 + SLen(constructor_bytecode) \div 2, 4)

\* contract_code_offset = format!("{:04x}", 13 + constructor_bytecode.len() / 2)
ContractCodeOffset(constructor_bytecode) ==
    FormatHex(13 + SLen(constructor_bytecode) \div 2, 4)

\* format!("61{}8061{}6000396000f3", contract_size, contract_code_offset)
BootstrapCode(contract_size, contract_code_offset) ==
    SCat(Str(<<"6", "1">>),
      SCat(contract_size,
        SCat(Str(<<"8", "0", "6", "1">>),
          SCat(contract_code_offset,
               Str(<<"6", "0", "0", "0", "3", "9", "6", "0", "0", "0", "f", "3">>)))))

\* Mutant: the constructor arguments put before the runtime bytecode.
DeployBytecodeArgsFirst(args, main_bytecode, constructor_bytecode) ==
    SCat(SCat(constructor_bytecode,
              BootstrapCode(ContractSize(main_bytecode),
                            ContractCodeOffset(constructor_bytecode))),
         SCat(ConstructorArgs(args), main_bytecode))

\* constructor_code ++ main_bytecode ++ constructor_args
DeployBytecode(args, main_bytecode, constructor_bytecode) ==
    LET bootstrap_code == BootstrapCode(ContractSize(main_bytecode),
                                        ContractCodeOffset(constructor_bytecode))
        constructor_code == SCat(constructor_bytecode, bootstrap_code)
    IN  SCat(SCat(constructor_code, main_bytecode), ConstructorArgs(args))

Running == ret.tag # "Panic"

\* Codegen::churn
Churn(args, main_bytecode, constructor_bytecode) ==
    /\ Running
    /\ LET artifact == IF cg.artifact = None THEN ArtifactDefault ELSE cg.artifact
           churned == [artifact EXCEPT
                         !.bytecode = DeployBytecode(args, main_bytecode,
                                                     constructor_bytecode),
                         !.runtime = main_bytecode]
       IN  /\ cg' = [cg EXCEPT !.artifact = churned]
           /\ ret' = Ok(churned)
           /\ hist' = [hist EXCEPT
                         !.churn = [args |-> args,
                                    main_bytecode |-> main_bytecode,
                                    constructor_bytecode |-> constructor_bytecode],
                         !.last = [op |-> "churn"]]
    /\ UNCHANGED files
    /\ UNCHANGED expanderVars

\* The paths export is asked to write; fs::write fails where the directory is
\* missing.
Paths == {"artifact.json", "no_such_dir/artifact.json"}

Writable == {"artifact.json"}

\* serde_json::to_string(art): the object's fields, in order.
Serialize(art) ==
    <<"{", "bytecode", art.bytecode, "runtime", art.runtime,
      "abi", art.abi, "}">>

\* Mutant: a missing artifact reported as an error.
ExportOutcomeErrOnNone(artifact, output, fs) ==
    IF artifact # None
    THEN IF output \in Writable
         THEN [files |-> [fs EXCEPT ![output] = Some(Serialize(artifact))],
               ret |-> Unit]
         ELSE [files |-> fs, ret |-> Panic("Unable to write file")]
    ELSE [files |-> fs, ret |-> Err("MissingArtifact")]

\* The body of Codegen::export: the file system after it, and what it returns.
ExportOutcome(artifact, output, fs) ==
    IF artifact # None
    THEN IF output \in Writable
         THEN [files |-> [fs EXCEPT ![output] = Some(Serialize(artifact))],
               ret |-> Unit]
         ELSE [files |-> fs, ret |-> Panic("Unable to write file")]
    ELSE [files |-> fs, ret |-> Unit]

\* Codegen::export
Export(output) ==
    /\ Running
    /\ LET out == ExportOutcome(cg.artifact, output, files)
       IN  /\ files' = out.files
           /\ ret' = out.ret
    /\ hist' = [hist EXCEPT !.last = [op |-> "export", output |-> output]]
    /\ UNCHANGED cg
    /\ UNCHANGED expanderVars

\* let abi: Abi = ast.into(): the interface the AST declares.
AbiOf(ast) ==
    [constructor |-> ast.abi_constructor, functions |-> ast.functions,
     events |-> ast.events]

\* Mutant: the artifact started afresh around the abi.
AbigenArtifactAfresh(artifact, abi) ==
    [ArtifactDefault EXCEPT !.abi = abi]

\* match &mut self.artifact { Some => artifact.abi = ..., None => new Artifact }
AbigenArtifact(artifact, abi) ==
    IF artifact # None
    THEN [artifact EXCEPT !.abi = abi]
    ELSE [ArtifactDefault EXCEPT !.abi = abi]

\* Codegen::abigen
Abigen(ast, output) ==
    /\ Running
    /\ LET abi == AbiOf(ast)
           stored == AbigenArtifact(cg.artifact, abi)
           out == IF output = None
                  THEN [files |-> files, ret |-> Unit]
                  ELSE ExportOutcome(stored, output.v, files)
       IN  /\ cg' = [cg EXCEPT !.artifact = stored]
           /\ files' = out.files
           /\ ret' = IF out.ret.tag = "Panic" THEN out.ret ELSE Ok(abi)
           /\ hist' = [hist EXCEPT
                         !.abigen = [abi |-> abi],
                         !.last = [op |-> "abigen", ast |-> ast,
                                   output |-> output]]
    /\ UNCHANGED expanderVars

(***************************************************************************)
(* The inputs of the artifact methods.                                     *)
(***************************************************************************)
Zeros(nbytes) == Rep("0", 2 * nbytes)

\* The runtime of the assembler scenario: 10 bytes.
TenBytes == Str([i \in 1..20 |-> IF i % 2 = 1 THEN "6" ELSE "0"])

SmallMains == { <<>>, Str(<<"a", "a">>), Str(<<"a", "a", "0", "b">>) }

SmallConstructors == { <<>>, Str(<<"b", "b">>) }

\* Runtimes up to and past the largest length two bytes can hold.
Mains == SmallMains \cup { TenBytes, Zeros(256), Zeros(65535), Zeros(65536) }

\* Constructors up to and past the largest offset two bytes can hold.
Constructors ==
    SmallConstructors \cup { Zeros(243), Zeros(65522), Zeros(65523) }

ArgLists == { <<>>, <<Uint(1)>>, <<Uint(255), Bool(TRUE)>> }

AbiContracts ==
    { [macros |-> <<>>, constants |-> <<>>, abi_constructor |-> <<>>,
       functions |-> {}, events |-> {}],
      [macros |-> <<>>, constants |-> <<>>, abi_constructor |-> <<"uint256">>,
       functions |-> {"transfer"}, events |-> {"Transfer"}] }

ChurnCall ==
    \E args \in ArgLists, m \in Mains, c \in Constructors : Churn(args, m, c)

SmallArgLists == { <<>>, <<Uint(1)>> }

ChurnSmallCall ==
    \E args \in SmallArgLists, m \in SmallMains, c \in SmallConstructors :
        Churn(args, m, c)

AbigenCall ==
    \E ast \in AbiContracts, output \in {Some(p) : p \in Paths} \cup {None} :
        Abigen(ast, output)

\* abigen with no output path: no export.
AbigenQuietCall == \E ast \in AbiContracts : Abigen(ast, None)

ExportCall == \E output \in Paths : Export(output)

(***************************************************************************)
(* Initial state and the specifications.                                    *)
(***************************************************************************)
\* Codegen::new()
NewCodegen ==
    [ast |-> None, artifact |-> None, main_bytecode |-> None,
     constructor_bytecode |-> None]

Init ==
    /\ pc = "idle"
    /\ contract = None
    /\ stack = <<>>
    /\ scope = <<>>
    /\ retval = None
    /\ result = None
    /\ ev = [kind |-> "Idle"]
    /\ fail = None
    /\ cg = NewCodegen
    /\ files = [p \in Paths |-> None]
    /\ ret = None
    /\ hist = [churn |-> None, abigen |-> None, last |-> [op |-> "new"]]

\* A call of construct on some AST, or on none.
ConstructCall ==
    /\ pc = "idle"
    /\ \E ast \in Contracts \cup {None} : Construct(ast)

Next ==
    \/ ConstructCall
    \/ LowerFail
    \/ StepByte
    \/ StepConstant
    \/ StepInvoke
    \/ StepInvalid
    \/ StepArgCall
    \/ ReturnOk
    \/ Resume
    \/ Finish

Spec == Init /\ [][Next]_vars

\* One step of a call of construct that has entered recurse_bytecode.
Step ==
    \/ LowerFail
    \/ StepByte
    \/ StepConstant
    \/ StepInvoke
    \/ StepInvalid
    \/ StepArgCall
    \/ ReturnOk
    \/ Resume
    \/ Finish

\* The expander is sequential code: a call that can take its next step takes it.
SpecLive == Init /\ [][Next]_vars /\ WF_vars(Step)

\* The assembler on bytecode of every size class, before or after abigen.
NextChurn ==
    \/ ChurnCall
    \/ AbigenQuietCall

SpecChurn == Init /\ [][NextChurn]_vars

\* The life of one Codegen value: churn, abigen and export in any order.
NextArtifact ==
    \/ ChurnSmallCall
    \/ AbigenCall
    \/ ExportCall

SpecArtifact == Init /\ [][NextArtifact]_vars

(***************************************************************************)
(* Reference expansion: the concatenation, in order, of what each IR entry *)
(* of a macro contributes.  Defined for macros whose expansion succeeds.   *)
(***************************************************************************)
RECURSIVE Flatten(_)
Flatten(ss) == IF ss = <<>> THEN <<>> ELSE Head(ss) \o Flatten(Tail(ss))

RECURSIVE ExpandRef(_, _)
ExpandRef(c, m) ==
    LET irbz == to_irbytecode(m).value
        Contribution(e) ==
            CASE e.kind = "Byte"      -> <<e.b>>
              [] e.kind = "Constant"  -> <<PushBytes(FindConstant(c, e.name).value)>>
              [] e.kind = "ArgCall"   -> <<>>
              [] e.kind = "Statement" ->
                    ExpandRef(c, find_macro_by_name(c, e.s.macro_name))
    IN  Flatten([i \in 1..Len(irbz) |-> Contribution(irbz[i])])

IsInvocation(s) == s.kind = "MacroInvocation"

\* The macro an activation of recurse_bytecode has just returned from.
Returned == ev.kind = "Return"

\* C1: whenever recurse_bytecode(M) returns Ok, its bytes are the in-order
\* concatenation of the contributions of M's IR entries: a concrete byte itself, an
\* invocation of N the whole of recurse_bytecode(N) at that position; nothing is
\* reordered, dropped or duplicated.
C1_InOrderConcatenation ==
    (Returned /\ retval.tag = "Ok") =>
        retval.value = ExpandRef(contract, ev.macro)

\* A body [b1, invoke N, b2] whose N contributes bytes has been expanded.
C1_Witness ==
    /\ Returned /\ retval.tag = "Ok" /\ ev.depth = 0
    /\ Len(ev.macro.statements) = 3
    /\ ev.macro.statements[1].kind = "Opcode"
    /\ IsInvocation(ev.macro.statements[2])
    /\ ev.macro.statements[3].kind = "Opcode"
    /\ Len(retval.value) > 3
    /\ retval.value[1] # retval.value[2]

\* C2: a resolved constant whose definition holds a literal of n bytes is emitted
\* as the push opcode 0x5F + n followed by exactly those n bytes (0xAB gives 60ab).
C2_PushOfLiteralLength ==
    (ev.kind = "Constant" /\ ev.constant.value.kind = "Literal") =>
        \A lit \in SourceLiterals :
            ev.constant.value.l = Literal32(lit) =>
                ev.pushed = SCat(FormatHex(95 + Len(lit), 2), HexEncode(lit))

\* The first IR entry of macro m that is not a concrete byte, an argument call or
\* a defined constant; 0 if there is none.
FirstHardEntry(c, m) ==
    LET irbz == to_irbytecode(m).value
        hard == { i \in 1..Len(irbz) :
                    \/ irbz[i].kind = "Statement"
                    \/ /\ irbz[i].kind = "Constant"
                       /\ FindConstant(c, irbz[i].name) = None }
    IN  IF hard = {} THEN 0 ELSE CHOOSE i \in hard : \A j \in hard : i <= j

EntryMacro == find_macro_by_name(contract, "CONSTRUCTOR")

\* C4: a failed lookup is an error of its own kind, never a default: an activation
\* that reaches an invocation of an undefined macro returns MissingMacroDefinition,
\* one that reaches an undefined constant returns MissingConstantDefinition (and
\* so does construct when that is the first such entry of CONSTRUCTOR); construct
\* without a CONSTRUCTOR macro returns MissingConstructor, and with a CONSTRUCTOR
\* of empty body returns Ok of the empty bytecode.
C4_MissingSymbolErrors ==
    /\ (Returned /\ ev.cause.what = "Entry" /\ ev.cause.entry.kind = "Statement"
          /\ IsInvocation(ev.cause.entry.s)
          /\ find_macro_by_name(contract, ev.cause.entry.s.macro_name) = None)
        => retval = Err("MissingMacroDefinition")
    /\ (Returned /\ ev.cause.what = "Entry" /\ ev.cause.entry.kind = "Constant"
          /\ FindConstant(contract, ev.cause.entry.name) = None)
        => retval = Err("MissingConstantDefinition")
    /\ (pc = "done" /\ contract # None /\ EntryMacro = None)
        => result = Err("MissingConstructor")
    /\ (pc = "done" /\ contract # None /\ EntryMacro # None)
        => LET k == FirstHardEntry(contract, EntryMacro)
               e == to_irbytecode(EntryMacro).value[k]
           IN  /\ EntryMacro.statements = <<>> => result = Ok(<<>>)
               /\ (k > 0 /\ e.kind = "Constant")
                    => result = Err("MissingConstantDefinition")
               /\ (k > 0 /\ e.kind = "Statement" /\ IsInvocation(e.s)
                     /\ find_macro_by_name(contract, e.s.macro_name) = None)
                    => result = Err("MissingMacroDefinition")

\* construct has returned MissingMacroDefinition for a CONSTRUCTOR that emits a
\* byte and then invokes the undefined macro X.
C4_Witness ==
    /\ pc = "done"
    /\ result = Err("MissingMacroDefinition")
    /\ EntryMacro.statements[1].kind = "Opcode"
    /\ EntryMacro.statements[2] = MacroInvocation("X")

\* C8: an activation whose invoked macro fails returns FailedMacroRecursion at
\* once; no step runs after the first failure; so construct returns the original
\* kind when the failure is in the entry macro's own body and FailedMacroRecursion
\* when it is at invocation depth 1 or more.
C8_FailedRecursionWraps ==
    /\ (Returned /\ ev.cause.what = "Inner")
        => (ev.cause.inner.tag = "Err" /\ retval = Err("FailedMacroRecursion"))
    /\ fail # None => (pc \in {"returning", "done"} /\ retval.tag = "Err")
    /\ (pc = "done" /\ fail # None)
        => result = Err(IF fail.depth = 0 THEN fail.kind
                        ELSE "FailedMacroRecursion")

\* A missing constant two invocations deep has reached construct's caller.
C8_Witness ==
    /\ pc = "done"
    /\ fail # None
    /\ fail.depth = 2
    /\ fail.kind = "MissingConstantDefinition"
    /\ result = Err("FailedMacroRecursion")

\* The macros of the running activations, outermost first.
CallPath == [i \in 1..Len(stack) |-> stack[i].macro_def]

\* C9: at every entry of recurse_bytecode the scope stack is the call path from
\* the entry macro to the macro being expanded: the current macro last, depth + 1
\* elements, no macro whose expansion has returned.
C9_ScopeIsCallPath ==
    ev.kind = "Enter" =>
        /\ scope[Len(scope)] = ev.macro
        /\ Len(scope) = ev.depth + 1
        /\ scope = CallPath

\* C10: every element returned by recurse_bytecode is two hex characters, one
\* byte, so construct's bytecode String has as many bytes as there are elements.
C10_ElementsAreSingleBytes ==
    /\ (Returned /\ retval.tag = "Ok")
        => \A i \in 1..Len(retval.value) : SLen(retval.value[i]) = 2
    /\ (pc = "done" /\ result.tag = "Ok")
        => SLen(result.value) = 2 * Len(retval.value)

(***************************************************************************)
(* The assembler and the artifact.                                         *)
(***************************************************************************)
\* The 4-hex-digit big-endian encoding of n < 65536.
Hex4(n) ==
    Str(<< HexDigits[((n \div 4096) % 16) + 1], HexDigits[((n \div 256) % 16) + 1],
           HexDigits[((n \div 16) % 16) + 1], HexDigits[(n % 16) + 1] >>)

RECURSIVE STake(_, _)
\* The first k characters of a String.
STake(s, k) ==
    IF k <= 0 \/ s = <<>> THEN <<>>
    ELSE IF Head(s).n >= k THEN <<[c |-> Head(s).c, n |-> k]>>
    ELSE <<Head(s)>> \o STake(Tail(s), k - Head(s).n)

RECURSIVE SDrop(_, _)
\* A String without its first k characters.
SDrop(s, k) ==
    IF k <= 0 \/ s = <<>> THEN s
    ELSE IF Head(s).n > k THEN <<[c |-> Head(s).c, n |-> Head(s).n - k]>> \o Tail(s)
    ELSE SDrop(Tail(s), k - Head(s).n)

\* Characters i..j of a String, counted from 1.
SSub(s, i, j) == STake(SDrop(s, i - 1), j - i + 1)

DigitValue(ch) == CHOOSE d \in 0..15 : HexDigits[d + 1] = ch

RECURSIVE HexValue(_)
\* The number a big-endian hex String encodes.
HexValue(h) ==
    IF h = <<>> THEN 0
    ELSE 16 * HexValue(STake(h, SLen(h) - 1)) + DigitValue(h[Len(h)].c)

RECURSIVE HexArgs(_)
\* The arguments' encodings, in hex, in argument order.
HexArgs(args) ==
    IF args = <<>> THEN <<>>
    ELSE SCat(HexArgs(SubSeq(args, 1, Len(args) - 1)),
              HexEncode(AbiEncode(args[Len(args)])))

RECURSIVE Join(_)
\* The Strings of a sequence, one after the other.
Join(ss) == IF ss = <<>> THEN <<>> ELSE SCat(Head(ss), Join(Tail(ss)))

Churned == hist.last.op = "churn"

\* Both length fields of the bootstrap fit their two bytes.
FieldsFit(R, C) == SLen(R) \div 2 < 65536 /\ 13 + SLen(C) \div 2 < 65536

BootstrapOf(b, R, C, args) ==
    SSub(b, SLen(C) + 1, SLen(b) - SLen(R) - SLen(HexArgs(args)))

\* The bootstrap is 13 bytes, its size field holds the runtime's byte length and
\* its offset field the byte position at which the runtime starts.
BootstrapExact(b, R, C, args) ==
    LET boot == BootstrapOf(b, R, C, args)
    IN  /\ SLen(boot) = 26
        /\ HexValue(SSub(boot, 3, 6)) = SLen(R) \div 2
        /\ HexValue(SSub(boot, 11, 14)) = 13 + SLen(C) \div 2
        /\ 2 * HexValue(SSub(boot, 11, 14)) = SLen(C) + SLen(boot)
        /\ SSub(b, SLen(C) + SLen(boot) + 1, SLen(C) + SLen(boot) + SLen(R)) = R

\* C7 as claimed: for runtime and constructor bytecode of ANY length the bootstrap
\* is exactly 13 bytes and its two fields hold the runtime's length and position.
C7_BootstrapAnyLength ==
    Churned =>
        BootstrapExact(cg.artifact.bytecode, hist.churn.main_bytecode,
                       hist.churn.constructor_bytecode, hist.churn.args)

\* C7 amended: the same for a runtime of at most 65535 bytes and a constructor of
\* at most 65522 bytes, the lengths whose fields fit two bytes.
C7_BootstrapWhenFieldsFit ==
    (Churned /\ FieldsFit(hist.churn.main_bytecode,
                          hist.churn.constructor_bytecode)) =>
        BootstrapExact(cg.artifact.bytecode, hist.churn.main_bytecode,
                       hist.churn.constructor_bytecode, hist.churn.args)

\* churn has run on the largest runtime and constructor whose fields still fit.
C7_Witness ==
    /\ Churned
    /\ SLen(hist.churn.main_bytecode) = 2 * 65535
    /\ SLen(hist.churn.constructor_bytecode) = 2 * 65522
    /\ SLen(cg.artifact.bytecode) >= 2 * (65535 + 65522 + 13)

\* The step is a call of export.
ExportStep == hist'.last.op = "export"

Written(output) == [files EXCEPT ![output] = Some(Serialize(cg.artifact))]

\* C5 as claimed: export never fails and never changes the Codegen: with no
\* artifact it writes nothing and returns Ok, with one it writes it.
C5_ExportNeverFails ==
    [][ExportStep =>
          /\ ret' = Unit
          /\ cg' = cg
          /\ cg.artifact = None => files' = files
          /\ cg.artifact # None => files' = Written(hist'.last.output)]_vars

\* C5 amended: export never returns an error and never changes the Codegen: with
\* no artifact it writes nothing and returns Ok; with one it writes it and returns
\* Ok when the write succeeds, and panics, writing nothing, when the write fails.
C5_ExportOkOrPanic ==
    [][ExportStep =>
          /\ cg' = cg
          /\ ret'.tag # "Err"
          /\ cg.artifact = None => (files' = files /\ ret' = Unit)
          /\ (cg.artifact # None /\ hist'.last.output \in Writable)
               => (files' = Written(hist'.last.output) /\ ret' = Unit)
          /\ (cg.artifact # None /\ hist'.last.output \notin Writable)
               => (files' = files /\ ret'.tag = "Panic")]_vars

\* export has written the artifact of a Codegen that churn and abigen had filled.
C5_Witness ==
    /\ hist.last.op = "export"
    /\ ret = Unit
    /\ cg.artifact # None
    /\ cg.artifact.abi # None
    /\ cg.artifact.runtime # <<>>
    /\ files[hist.last.output] = Some(Serialize(cg.artifact))

\* C6: after any sequence of churn and abigen calls the artifact exists once either
\* has been called, its bytecode and runtime are those of the last churn (empty if
\* there was none) and its abi that of the last abigen (absent if there was none).
C6_LastCallPerField ==
    /\ (hist.churn = None /\ hist.abigen = None) => cg.artifact = None
    /\ (hist.churn # None \/ hist.abigen # None) =>
         /\ cg.artifact # None
         /\ cg.artifact.bytecode =
              IF hist.churn = None THEN <<>>
              ELSE DeployBytecode(hist.churn.args, hist.churn.main_bytecode,
                                  hist.churn.constructor_bytecode)
         /\ cg.artifact.runtime =
              IF hist.churn = None THEN <<>> ELSE hist.churn.main_bytecode
         /\ cg.artifact.abi =
              IF hist.abigen = None THEN None ELSE hist.abigen.abi

\* abigen has run after churn and the churned bytecode is still there.
C6_Witness ==
    /\ hist.last.op = "abigen"
    /\ hist.churn # None
    /\ hist.churn.main_bytecode # <<>>
    /\ cg.artifact.runtime = hist.churn.main_bytecode
    /\ cg.artifact.abi = hist.abigen.abi
    /\ hist.abigen.abi.functions # {}

(***************************************************************************)
(* Termination of the expansion.                                           *)
(***************************************************************************)
\* The names of the defined macros a macro's body invokes.
Callees(c, name) ==
    LET m == find_macro_by_name(c, name)
    IN  IF m = None THEN {}
        ELSE { m.statements[i].macro_name :
                 i \in { j \in 1..Len(m.statements) :
                           /\ IsInvocation(m.statements[j])
                           /\ find_macro_by_name(c, m.statements[j].macro_name) # None } }

RECURSIVE ReachFrom(_, _, _)
\* The macros reachable from a set of macros in at most k invocations.
ReachFrom(c, from, k) ==
    IF k = 0 THEN from
    ELSE ReachFrom(c, from \cup UNION { Callees(c, n) : n \in from }, k - 1)

\* The macros reachable from a macro in one invocation or more.
Below(c, name) == ReachFrom(c, Callees(c, name), Len(c.macros))

\* The invocation graph reachable from the entry macro has no cycle.
Acyclic(c) ==
    \A n \in ReachFrom(c, {"CONSTRUCTOR"}, Len(c.macros)) : n \notin Below(c, n)

RECURSIVE Walk(_, _, _, _)
\* Where the in-order walk of macro m from entry i ends, path being the macros
\* under expansion: "ok" at the end of the body, "err" at the first invalid entry,
\* "loop" at the invocation of a defined macro that is under expansion.
Walk(c, m, i, path) ==
    LET irb == to_irbytecode(m)
    IN  IF irb.tag = "Err" THEN "err"
        ELSE IF i > Len(irb.value) THEN "ok"
        ELSE LET e == irb.value[i]
             IN  CASE e.kind \in {"Byte", "ArgCall"} -> Walk(c, m, i + 1, path)
                   [] e.kind = "Constant" ->
                        IF FindConstant(c, e.name) = None THEN "err"
                        ELSE Walk(c, m, i + 1, path)
                   [] e.kind = "Statement" ->
                        IF ~IsInvocation(e.s) THEN "err"
                        ELSE LET n == find_macro_by_name(c, e.s.macro_name)
                             IN  IF n = None THEN "err"
                                 ELSE IF n.name \in path THEN "loop"
                                 ELSE LET r == Walk(c, n, 1, path \cup {n.name})
                                      IN  IF r = "ok" THEN Walk(c, m, i + 1, path)
                                          ELSE r

\* construct has entered recurse_bytecode on the contract's CONSTRUCTOR.
Entered == contract # None /\ find_macro_by_name(contract, "CONSTRUCTOR") # None

\* The entry macro reaches, through valid entries only, a chain of defined macros
\* that invokes itself.
ReachesCycle ==
    /\ Entered
    /\ Walk(contract, find_macro_by_name(contract, "CONSTRUCTOR"), 1,
            {"CONSTRUCTOR"}) = "loop"

\* The expansion stands at the invocation of a defined macro with MaxDepth
\* activations open: the next activation is the one the model does not follow.
AtMaxDepth ==
    /\ AtEntry
    /\ Cur.kind = "Statement"
    /\ IsInvocation(Cur.s)
    /\ find_macro_by_name(contract, Cur.s.macro_name) # None
    /\ Len(stack) = MaxDepth
    /\ Len(scope) >= MaxDepth

\* C11: the expansion of a contract whose invocation graph reachable from the
\* entry macro is acyclic returns (Ok or an error); when the entry macro reaches a
\* self-invoking or mutually-invoking chain of defined macros through valid entries,
\* construct never returns and the activations and the scope grow up to any depth
\* followed, nothing but that depth stopping them.
C11_TerminatesUnlessCyclic ==
    /\ (Entered /\ Acyclic(contract)) ~> (pc = "done" /\ result # None)
    /\ [](ReachesCycle => (pc # "done" /\ result = None /\ ~Acyclic(contract)))
    /\ ReachesCycle ~> AtMaxDepth
    /\ [](ReachesCycle /\ AtMaxDepth => [](AtMaxDepth))

\* A mutual recursion CONSTRUCTOR -> A -> B -> A stands at the depth followed.
C11_Witness ==
    /\ ReachesCycle
    /\ AtMaxDepth
    /\ [i \in 1..4 |-> stack[i].macro_def.name] = <<"CONSTRUCTOR", "A", "B", "A">>
    /\ Len(scope) = Len(stack)

====
